---- MODULE Spec2Model ----
(***************************************************************************)
(* Model of package oauth (anthropic-sdk-go): the configuration builders   *)
(* WithConfig / WithAccessToken / WithLoadEnv and the request middleware   *)
(* returned by oauthMiddleware.                                            *)
(*                                                                         *)
(* A Go string is modelled as a sequence of symbols.  A symbol is either a *)
(* separator that the code inspects (",", " ", "&", "=", ";", "%3D") or a  *)
(* chunk of characters that holds none of them ("a", "oauth-2025-04-20").  *)
(* strings.Split, strings.TrimSpace, strings.Join, url.ParseQuery and      *)
(* url.Values.Encode are computed on these sequences.                      *)
(***************************************************************************)
EXTENDS Integers, Sequences, FiniteSets, TLC

\* ------------------------------------------------------------ bounds

\* The largest number of times the oauth unit is supplied to one request.
MaxUnits == 2

\* ------------------------------------------------------------ strings

Empty == <<>>

Str(chunk) == <<chunk>>

RECURSIVE Join(_, _)
\* strings.Join(elems, sep)
Join(elems, sep) ==
    IF elems = <<>> THEN <<>>
    ELSE IF Len(elems) = 1 THEN elems[1]
    ELSE elems[1] \o sep \o Join(Tail(elems), sep)

RECURSIVE SplitFrom(_, _, _, _)
SplitFrom(s, sep, i, cur) ==
    IF i > Len(s) THEN <<cur>>
    ELSE IF s[i] = sep THEN <<cur>> \o SplitFrom(s, sep, i + 1, <<>>)
    ELSE SplitFrom(s, sep, i + 1, Append(cur, s[i]))

\* strings.Split(s, sep) for a one-symbol separator: n separators give n+1 parts.
Split(s, sep) == SplitFrom(s, sep, 1, <<>>)

RECURSIVE TrimLeft(_)
TrimLeft(s) == IF s # <<>> /\ Head(s) = " " THEN TrimLeft(Tail(s)) ELSE s

RECURSIVE TrimRight(_)
TrimRight(s) ==
    IF s # <<>> /\ s[Len(s)] = " " THEN TrimRight(SubSeq(s, 1, Len(s) - 1)) ELSE s

\* strings.TrimSpace(s)
TrimSpace(s) == TrimRight(TrimLeft(s))

Range(f) == {f[i] : i \in DOMAIN f}

RECURSIVE Perms(_)
\* Every order in which the elements of a set can be listed.
Perms(S) ==
    IF S = {} THEN {<<>>}
    ELSE UNION {{<<x>> \o p : p \in Perms(S \ {x})} : x \in S}

\* ------------------------------------------------------------ http.Header

BetaKey == "Anthropic-Beta"
UAKey == "User-Agent"
AuthKey == "Authorization"
HeaderKeys == {BetaKey, UAKey, AuthKey}

\* http.Header.Get: the first value of the key, "" when the key is absent.
HeaderGet(h, key) == IF h[key] = <<>> THEN Empty ELSE Head(h[key])

\* http.Header.Set: the key's values become the single value v.
HeaderSet(h, key, v) == [h EXCEPT ![key] = <<v>>]

\* ------------------------------------------------------------ url.Values

\* Byte order of the chunks that occur in query keys.
KeyChunks == <<"%3D", "=", "a", "bar", "beta", "foo", "true">>

ChunkRank(c) == CHOOSE i \in 1..Len(KeyChunks) : KeyChunks[i] = c

RECURSIVE StrLess(_, _)
StrLess(s, t) ==
    IF t = <<>> THEN FALSE
    ELSE IF s = <<>> THEN TRUE
    ELSE IF Head(s) = Head(t) THEN StrLess(Tail(s), Tail(t))
    ELSE ChunkRank(Head(s)) < ChunkRank(Head(t))

\* url.QueryUnescape / url.QueryEscape on the one symbol the model escapes.
Unescape(s) == [i \in 1..Len(s) |-> IF s[i] = "%3D" THEN "=" ELSE s[i]]
Escape(s) == [i \in 1..Len(s) |-> IF s[i] = "=" THEN "%3D" ELSE s[i]]

Contains(s, sym) == \E i \in 1..Len(s) : s[i] = sym

IndexOf(s, sym) == CHOOSE i \in 1..Len(s) : s[i] = sym /\ \A j \in 1..(i - 1) : s[j] # sym

SegKey(seg) ==
    Unescape(IF Contains(seg, "=") THEN SubSeq(seg, 1, IndexOf(seg, "=") - 1) ELSE seg)

SegValue(seg) ==
    Unescape(IF Contains(seg, "=") THEN SubSeq(seg, IndexOf(seg, "=") + 1, Len(seg)) ELSE <<>>)

\* A segment url.ParseQuery keeps: not empty and free of ";".
SegOk(seg) == seg # <<>> /\ ~Contains(seg, ";")

RECURSIVE ValuesOf(_, _)
\* The values of key k among the segments, in order of appearance.
ValuesOf(segs, k) ==
    IF segs = <<>> THEN <<>>
    ELSE (IF SegOk(Head(segs)) /\ SegKey(Head(segs)) = k
          THEN <<SegValue(Head(segs))>> ELSE <<>>) \o ValuesOf(Tail(segs), k)

\* r.URL.Query(): url.ParseQuery with its error dropped; a map from key to values.
Query(raw) ==
    LET segs == Split(raw, "&")
        keys == {SegKey(segs[i]) : i \in {j \in 1..Len(segs) : SegOk(segs[j])}}
    IN  [k \in keys |-> ValuesOf(segs, k)]

\* url.Values.Set
ValuesSet(q, key, v) == [k \in DOMAIN q \cup {key} |-> IF k = key THEN <<v>> ELSE q[k]]

SortedKeys(K) ==
    CHOOSE p \in Perms(K) : \A i \in 1..(Len(p) - 1) : StrLess(p[i], p[i + 1])

RECURSIVE EncodeKey(_, _)
EncodeKey(k, vals) ==
    IF vals = <<>> THEN <<>>
    ELSE <<Escape(k) \o <<"=">> \o Escape(Head(vals))>> \o EncodeKey(k, Tail(vals))

RECURSIVE EncodeKeys(_, _)
EncodeKeys(q, keys) ==
    IF keys = <<>> THEN <<>>
    ELSE EncodeKey(Head(keys), q[Head(keys)]) \o EncodeKeys(q, Tail(keys))

\* url.Values.Encode: "k=v" pairs joined by "&", keys sorted.
Encode(q) == Join(EncodeKeys(q, SortedKeys(DOMAIN q)), <<"&">>)

\* ------------------------------------------------------------ Config

\* var DefaultOAuthBetas at program start.
DefaultOAuthBetasInit ==
    << Str("oauth-2025-04-20"), Str("interleaved-thinking-2025-05-14"),
       Str("claude-code-20250219"), Str("fine-grained-tool-streaming-2025-05-14") >>

\* type Config
Config(token, betas, ua, useBeta) ==
    [AccessToken |-> token, RefreshToken |-> Empty, Betas |-> betas,
     UserAgent |-> ua, UseBetaEndpoint |-> useBeta]

\* The zero Config.
ZeroConfig == Config(Empty, <<>>, Empty, FALSE)

\* Inputs of the builders.
TokenInputs == {Empty, Str("T")}

\* Betas of the caller: unset, two flags, a repeated flag, a flag with a space.
BetasInputs ==
    { <<>>,
      <<Str("oauth-2025-04-20"), Str("x")>>,
      <<Str("x"), Str("x")>>,
      << <<" ", "x">> >> }

UserAgentInputs == {Empty, Str("X/1.0")}

ConfigInputs ==
    {Config(t, b, u, q) : t \in TokenInputs, b \in BetasInputs,
                          u \in UserAgentInputs, q \in BOOLEAN}

PrimaryVar == "ANTHROPIC_OAUTH_ACCESS_TOKEN"
FallbackVar == "ANTHROPIC_ACCESS_TOKEN"
EnvVars == {PrimaryVar, FallbackVar}

\* Values of the environment variables; an unset variable reads as "".
EnvValues == {Empty, Str("P"), Str("E")}

Environments == [EnvVars -> EnvValues]

Unset == [v \in EnvVars |-> Empty]

\* The calls a program makes to build the client's option.
Calls ==
    {[fn |-> "WithConfig", cfg |-> c] : c \in ConfigInputs}
      \cup {[fn |-> "WithAccessToken", cfg |-> Config(t, <<>>, Empty, FALSE)] : t \in TokenInputs}
      \cup {[fn |-> "WithLoadEnv", cfg |-> ZeroConfig]}

\* ------------------------------------------------------------ requests

Requests == {1, 2}

\* anthropic-beta values a request carries before the middleware runs.
\* Absent; one value with a repeated flag and a space; two values.
BetaHeaderInputs ==
    { <<>>,
      << <<"oauth-2025-04-20", ",", " ", "claude-code-20250219", ",", "oauth-2025-04-20">> >>,
      << Str("claude-code-20250219"), Str("y") >> }

UAHeaderInputs == { <<>>, <<Str("sdk/1")>> }

RawQueryInputs ==
    { Empty,
      <<"foo", "=", "bar", "&", "beta", "=", "a", "&", "a", "=", "a", "=", "a", "&", "beta">>,
      <<"foo", ";", "a", "&", "&", "foo", "=", "bar", "&", "foo">> }

OtherAuth == <<"Basic", " ", "u">>

\* The option lists of a request: the oauth unit one to MaxUnits times, and at
\* most one other unit that sets the Authorization header.
RECURSIVE OAuthRuns(_)
OAuthRuns(n) == IF n = 0 THEN {} ELSE OAuthRuns(n - 1) \cup {[i \in 1..n |-> "oauth"]}

InsertAt(s, i, x) == SubSeq(s, 1, i) \o <<x>> \o SubSeq(s, i + 1, Len(s))

Pipelines ==
    OAuthRuns(MaxUnits)
      \cup UNION {{InsertAt(s, i, "other") : i \in 0..Len(s)} : s \in OAuthRuns(MaxUnits)}

CountOAuth(opts) == Cardinality({i \in 1..Len(opts) : opts[i] = "oauth"})

HeaderOf(beta, ua) == [k \in HeaderKeys |->
    IF k = BetaKey THEN beta ELSE IF k = UAKey THEN ua ELSE <<>>]

\* The part of *http.Request the unit touches.
HTTPRequest(header, rawQuery) == [Header |-> header, RawQuery |-> rawQuery]

RequestInputs ==
    {HTTPRequest(HeaderOf(b, u), q) :
        b \in BetaHeaderInputs, u \in UAHeaderInputs, q \in RawQueryInputs}

\* What the properties below need of the request as the current invocation found it.
Entry(r) == [UserAgent |-> r.Header[UAKey], RawQuery |-> r.RawQuery]

NoEntry == [UserAgent |-> <<>>, RawQuery |-> Empty]

\* The flags a reader of the anthropic-beta values finds: every value split
\* on "," and trimmed, in order.
RECURSIVE FlagsOf(_)
FlagsOf(values) ==
    IF values = <<>> THEN <<>>
    ELSE LET parts == Split(Head(values), ",")
         IN  [i \in 1..Len(parts) |-> TrimSpace(parts[i])] \o FlagsOf(Tail(values))

Occurrences(seq, x) == Cardinality({i \in 1..Len(seq) : seq[i] = x})

\* What the properties below need of the request the first invocation handed on.
First(r) ==
    [done |-> TRUE, Flags |-> Range(FlagsOf(r.Header[BetaKey])),
     UserAgent |-> r.Header[UAKey], Query |-> Query(r.RawQuery)]

NoFirst == [done |-> FALSE, Flags |-> {}, UserAgent |-> <<>>, Query |-> Query(Empty)]

IdleRequest ==
    [pc |-> "idle", opts |-> <<>>, orig |-> HTTPRequest(HeaderOf(<<>>, <<>>), Empty),
     r |-> HTTPRequest(HeaderOf(<<>>, <<>>), Empty), depth |-> 0, nextCalls |-> 0,
     entry |-> NoEntry, first |-> NoFirst, result |-> "none", ret |-> "none"]

\* What the terminal send step can return.
Outcomes == {"response", "error", "canceled"}

\* ------------------------------------------------------------ state

VARIABLES
    env,                \* the process environment
    call,               \* the builder call the program makes, with the caller's Config
    built,              \* the builder has returned
    cfg,                \* the Config the middleware closed over
    DefaultOAuthBetas,  \* the package variable
    envAtBuild,         \* the environment as WithLoadEnv found it
    req                 \* the requests in flight

vars == <<env, call, built, cfg, DefaultOAuthBetas, envAtBuild, req>>

\* The state before the builder is called.  Only WithLoadEnv reads the
\* environment, so the other calls start from the unset one.
InitWith(calls, envs) ==
    /\ call \in calls
    /\ env \in IF call.fn = "WithLoadEnv" THEN envs ELSE {Unset}
    /\ built = FALSE
    /\ cfg = ZeroConfig
    /\ DefaultOAuthBetas = DefaultOAuthBetasInit
    /\ envAtBuild = env
    /\ req = [i \in Requests |-> IdleRequest]

Init == InitWith(Calls, Environments)

\* ------------------------------------------------------------ builders

\* WithConfig, lines 82-84: the default substitution, on the function's own copy.
BuildConfig(c) == IF Len(c.Betas) = 0 THEN [c EXCEPT !.Betas = DefaultOAuthBetas] ELSE c

\* The lookup with the two variables taken in the wrong order.
LoadEnvTokenFallbackFirst(e) ==
    IF e[FallbackVar] = Empty THEN e[PrimaryVar] ELSE e[FallbackVar]

\* WithLoadEnv, lines 116-119.
LoadEnvToken(e) == IF e[PrimaryVar] = Empty THEN e[FallbackVar] ELSE e[PrimaryVar]

WithConfig ==
    /\ ~built
    /\ call.fn = "WithConfig"
    /\ cfg' = BuildConfig(call.cfg)
    /\ built' = TRUE
    /\ UNCHANGED <<env, call, DefaultOAuthBetas, envAtBuild, req>>

WithAccessToken ==
    /\ ~built
    /\ call.fn = "WithAccessToken"
    /\ cfg' = BuildConfig(Config(call.cfg.AccessToken, <<>>, Empty, FALSE))
    /\ built' = TRUE
    /\ UNCHANGED <<env, call, DefaultOAuthBetas, envAtBuild, req>>

WithLoadEnv ==
    /\ ~built
    /\ call.fn = "WithLoadEnv"
    /\ cfg' = BuildConfig(Config(LoadEnvToken(env), <<>>, Empty, FALSE))
    /\ envAtBuild' = env
    /\ built' = TRUE
    /\ UNCHANGED <<env, call, DefaultOAuthBetas, req>>

\* os.Setenv / os.Unsetenv by the surrounding program.
Setenv ==
    \E v \in EnvVars, val \in EnvValues :
        /\ env[v] # val
        /\ env' = [env EXCEPT ![v] = val]
        /\ UNCHANGED <<call, built, cfg, DefaultOAuthBetas, envAtBuild, req>>

\* ------------------------------------------------------------ options

\* option.WithAuthToken: sets the Authorization header to "Bearer <token>".
WithAuthToken(h, token) == HeaderSet(h, AuthKey, <<"Bearer", " ">> \o token)

\* option.WithHeader
WithHeader(h, key, v) == HeaderSet(h, key, v)

RECURSIVE Apply(_, _, _)
\* rc.Apply(opts...): the units in order; the oauth unit applies
\* option.WithAuthToken(cfg.AccessToken) and registers its middleware.
Apply(h, opts, c) ==
    IF opts = <<>> THEN h
    ELSE Apply(IF Head(opts) = "oauth" THEN WithAuthToken(h, c.AccessToken)
               ELSE WithHeader(h, AuthKey, OtherAuth),
               Tail(opts), c)

\* ------------------------------------------------------------ oauthMiddleware

\* The merge that goes through the map even when the request has no header.
MergeBetaHeaderViaSet(h, c) ==
    IF Len(c.Betas) > 0
    THEN LET existingBetas == HeaderGet(h, BetaKey)
             parts == IF existingBetas = Empty THEN <<>> ELSE Split(existingBetas, ",")
             betaSet == {TrimSpace(parts[i]) : i \in 1..Len(parts)} \cup Range(c.Betas)
         IN  {HeaderSet(h, BetaKey, Join(allBetas, <<",">>)) : allBetas \in Perms(betaSet)}
    ELSE {h}

\* Lines 130-151: the headers the anthropic-beta step can leave (the order of
\* a Go map's iteration is not fixed).
MergeBetaHeader(h, c) ==
    IF Len(c.Betas) > 0
    THEN LET existingBetas == HeaderGet(h, BetaKey)
         IN  IF existingBetas # Empty
             THEN LET parts == Split(existingBetas, ",")
                      betaSet == {TrimSpace(parts[i]) : i \in 1..Len(parts)} \cup Range(c.Betas)
                  IN  {HeaderSet(h, BetaKey, Join(allBetas, <<",">>)) : allBetas \in Perms(betaSet)}
             ELSE {HeaderSet(h, BetaKey, Join(c.Betas, <<",">>))}
    ELSE {h}

\* The override that yields to a User-Agent already on the request.
OverrideUserAgentIfAbsent(h, c) ==
    IF c.UserAgent # Empty /\ h[UAKey] = <<>> THEN HeaderSet(h, UAKey, c.UserAgent) ELSE h

\* Lines 154-156.
OverrideUserAgent(h, c) ==
    IF c.UserAgent # Empty THEN HeaderSet(h, UAKey, c.UserAgent) ELSE h

\* The query rewrite that starts from empty url.Values.
BetaEndpointQueryFresh(raw, c) ==
    IF c.UseBetaEndpoint
    THEN Encode(ValuesSet(Query(Empty), Str("beta"), Str("true")))
    ELSE raw

\* Lines 159-163.
BetaEndpointQuery(raw, c) ==
    IF c.UseBetaEndpoint
    THEN Encode(ValuesSet(Query(raw), Str("beta"), Str("true")))
    ELSE raw

\* The return that turns the successor's error into a response.
MiddlewareReturnSwallow(res) == IF res = "error" THEN "response" ELSE res

\* Line 165: the value the middleware returns for its successor's result.
MiddlewareReturn(res) == res

NewRequest(i, inputs, pipelines) ==
    /\ built
    /\ req[i].pc = "idle"
    /\ \E in \in inputs, opts \in pipelines :
          req' = [req EXCEPT ![i] = [IdleRequest EXCEPT
                     !.pc = "options", !.opts = opts, !.orig = in, !.r = in]]
    /\ UNCHANGED <<env, call, built, cfg, DefaultOAuthBetas, envAtBuild>>

ApplyOptions(i) ==
    /\ req[i].pc = "options"
    /\ req' = [req EXCEPT ![i].r.Header = Apply(@, req[i].opts, cfg),
                          ![i].entry = Entry(req[i].r),
                          ![i].depth = 1,
                          ![i].pc = "beta"]
    /\ UNCHANGED <<env, call, built, cfg, DefaultOAuthBetas, envAtBuild>>

\* The merge step that appends the request's flags to the Betas it closed over.
MergeBetasSharedWrite(i) ==
    /\ req[i].pc = "beta"
    /\ \E h \in MergeBetaHeader(req[i].r.Header, cfg) :
          req' = [req EXCEPT ![i].r.Header = h, ![i].pc = "ua"]
    /\ cfg' = [cfg EXCEPT !.Betas = @ \o FlagsOf(req[i].r.Header[BetaKey])]
    /\ UNCHANGED <<env, call, built, DefaultOAuthBetas, envAtBuild>>

MergeBetas(i) ==
    /\ req[i].pc = "beta"
    /\ \E h \in MergeBetaHeader(req[i].r.Header, cfg) :
          req' = [req EXCEPT ![i].r.Header = h, ![i].pc = "ua"]
    /\ UNCHANGED <<env, call, built, cfg, DefaultOAuthBetas, envAtBuild>>

SetUserAgent(i) ==
    /\ req[i].pc = "ua"
    /\ req' = [req EXCEPT ![i].r.Header = OverrideUserAgent(@, cfg), ![i].pc = "query"]
    /\ UNCHANGED <<env, call, built, cfg, DefaultOAuthBetas, envAtBuild>>

SetQuery(i) ==
    /\ req[i].pc = "query"
    /\ req' = [req EXCEPT ![i].r.RawQuery = BetaEndpointQuery(@, cfg), ![i].pc = "next"]
    /\ UNCHANGED <<env, call, built, cfg, DefaultOAuthBetas, envAtBuild>>

\* next(r): the successor is the next registered middleware, or the send step.
CallNext(i) ==
    /\ req[i].pc = "next"
    /\ IF req[i].depth < CountOAuth(req[i].opts)
       THEN req' = [req EXCEPT ![i].first = IF @.done THEN @ ELSE First(req[i].r),
                               ![i].entry = Entry(req[i].r),
                               ![i].nextCalls = @ + 1,
                               ![i].depth = @ + 1,
                               ![i].pc = "beta"]
       ELSE \E out \in Outcomes :
               req' = [req EXCEPT ![i].first = IF @.done THEN @ ELSE First(req[i].r),
                                  ![i].nextCalls = @ + 1,
                                  ![i].result = out,
                                  ![i].ret = out,
                                  ![i].pc = "ret"]
    /\ UNCHANGED <<env, call, built, cfg, DefaultOAuthBetas, envAtBuild>>

\* return next(r), once per invocation, innermost first.
Return(i) ==
    /\ req[i].pc = "ret"
    /\ req' = [req EXCEPT ![i].ret = MiddlewareReturn(@),
                          ![i].depth = @ - 1,
                          ![i].pc = IF req[i].depth = 1 THEN "done" ELSE "ret"]
    /\ UNCHANGED <<env, call, built, cfg, DefaultOAuthBetas, envAtBuild>>

\* The exchange ends; the client issues its next request.
Finish(i) ==
    /\ req[i].pc = "done"
    /\ req' = [req EXCEPT ![i] = IdleRequest]
    /\ UNCHANGED <<env, call, built, cfg, DefaultOAuthBetas, envAtBuild>>

Step(i, inputs, pipelines) ==
    \/ NewRequest(i, inputs, pipelines)
    \/ ApplyOptions(i)
    \/ MergeBetas(i)
    \/ SetUserAgent(i)
    \/ SetQuery(i)
    \/ CallNext(i)
    \/ Return(i)
    \/ Finish(i)

Build == WithConfig \/ WithAccessToken \/ WithLoadEnv

\* One request at a time.
Next == Build \/ Step(1, RequestInputs, Pipelines)

Spec == Init /\ [][Next]_vars

\* A client built by WithLoadEnv in a program that changes its environment.
InitEnv == InitWith({c \in Calls : c.fn = "WithLoadEnv"}, Environments)

EnvInputs ==
    { HTTPRequest(HeaderOf(<<>>, <<>>), Empty),
      HTTPRequest(HeaderOf(<<Str("claude-code-20250219"), Str("y")>>, <<Str("sdk/1")>>),
                  <<"foo", "=", "bar">>) }

NextEnv == WithLoadEnv \/ Setenv \/ Step(1, EnvInputs, Pipelines)

SpecEnv == InitEnv /\ [][NextEnv]_vars

\* Two requests in flight through the same unit.
ConcCalls ==
    { [fn |-> "WithConfig", cfg |-> Config(Str("T"), <<>>, Str("X/1.0"), TRUE)],
      [fn |-> "WithConfig", cfg |-> Config(Str("T"), <<Str("oauth-2025-04-20"), Str("x")>>, Empty, FALSE)],
      [fn |-> "WithAccessToken", cfg |-> Config(Str("T"), <<>>, Empty, FALSE)],
      [fn |-> "WithLoadEnv", cfg |-> ZeroConfig] }

ConcInputs == EnvInputs

ConcPipelines == { <<"oauth">> }

InitConc == InitWith(ConcCalls, {[v \in EnvVars |-> Str("E")]})

NextConc == Build \/ \E i \in Requests : Step(i, ConcInputs, ConcPipelines)

SpecConc == InitConc /\ [][NextConc]_vars

\* ------------------------------------------------------------ claims

\* The request of slot i has left the merge step of its first invocation.
Merged(i) == req[i].pc = "ua" /\ req[i].depth = 1

\* The flags of the header value the merge step read.
ExistingFlags(h) ==
    IF HeaderGet(h, BetaKey) = Empty THEN <<>> ELSE FlagsOf(<<HeaderGet(h, BetaKey)>>)

\* The Betas the caller asked for, or the documented defaults.
EffectiveBetas ==
    IF call.fn = "WithConfig" /\ call.cfg.Betas # <<>>
    THEN call.cfg.Betas
    ELSE << Str("oauth-2025-04-20"), Str("interleaved-thinking-2025-05-14"),
            Str("claude-code-20250219"), Str("fine-grained-tool-streaming-2025-05-14") >>

CallerUserAgent == IF call.fn = "WithConfig" THEN call.cfg.UserAgent ELSE Empty

CallerUseBeta == call.fn = "WithConfig" /\ call.cfg.UseBetaEndpoint

\* C1: the anthropic-beta header the middleware writes holds every flag of
\* the existing header value and of the flags to add, each exactly once.
C1_MergeHoldsEachFlagOnce ==
    \A i \in Requests :
        Merged(i) =>
            LET written == FlagsOf(req[i].r.Header[BetaKey])
                given == Range(ExistingFlags(req[i].orig.Header))
                           \cup {TrimSpace(b) : b \in Range(EffectiveBetas)}
            IN  \A t \in given : Occurrences(written, t) = 1

\* C2: a unit built from an empty AccessToken leaves the Authorization header
\* as the other units set it, or absent.
C2_EmptyTokenLeavesAuthorization ==
    \A i \in Requests :
        (req[i].pc \notin {"idle", "options"} /\ cfg.AccessToken = Empty) =>
            req[i].r.Header[AuthKey] =
                IF "other" \in Range(req[i].opts) THEN <<OtherAuth>>
                ELSE req[i].orig.Header[AuthKey]

\* The credential the environment held when WithLoadEnv was called.
ResolvedAtBuild ==
    IF envAtBuild[PrimaryVar] # Empty THEN envAtBuild[PrimaryVar]
    ELSE IF envAtBuild[FallbackVar] # Empty THEN envAtBuild[FallbackVar]
    ELSE Empty

\* C3: WithLoadEnv takes the primary variable when it is non-empty, else the
\* fallback, else "", as the environment stood when it was called; a request
\* whose last authorization unit is this one carries "Bearer <credential>".

C3_LoadEnvResolution ==
    built =>
        /\ cfg.AccessToken = ResolvedAtBuild
        /\ \A i \in Requests :
              (/\ req[i].pc \notin {"idle", "options"}
               /\ req[i].opts[Len(req[i].opts)] = "oauth"
               /\ ResolvedAtBuild # Empty)
              => req[i].r.Header[AuthKey] = << <<"Bearer", " ">> \o ResolvedAtBuild >>

C3_Witness ==
    /\ built
    /\ envAtBuild[PrimaryVar] = Empty /\ envAtBuild[FallbackVar] = Str("E")
    /\ env[PrimaryVar] = Str("P")
    /\ req[1].pc = "done"
    /\ req[1].r.Header[AuthKey] = << <<"Bearer", " ", "E">> >>

\* C4: on a request without an anthropic-beta header the middleware writes
\* the effective flags joined by "," in their order: Config.Betas when given,
\* else the four default flags.
C4_NoHeaderJoinsInOrder ==
    \A i \in Requests :
        (Merged(i) /\ req[i].orig.Header[BetaKey] = <<>>) =>
            req[i].r.Header[BetaKey] =
                << IF call.fn = "WithConfig" /\ call.cfg.Betas # <<>>
                   THEN Join(call.cfg.Betas, <<",">>)
                   ELSE <<"oauth-2025-04-20", ",", "interleaved-thinking-2025-05-14", ",",
                          "claude-code-20250219", ",", "fine-grained-tool-streaming-2025-05-14">> >>

C4_Witness ==
    /\ Merged(1)
    /\ call.fn = "WithAccessToken"
    /\ req[1].orig.Header[BetaKey] = <<>>
    /\ req[1].r.Header[BetaKey] =
          << <<"oauth-2025-04-20", ",", "interleaved-thinking-2025-05-14", ",",
               "claude-code-20250219", ",", "fine-grained-tool-streaming-2025-05-14">> >>

\* C5: with UseBetaEndpoint the query handed on has beta = "true" alone and
\* every other parameter with its values; without it the query is untouched.
C5_BetaQuery ==
    \A i \in Requests :
        req[i].pc = "next" =>
            IF CallerUseBeta
            THEN LET q == Query(req[i].r.RawQuery)
                     q0 == Query(req[i].entry.RawQuery)
                 IN  /\ DOMAIN q = DOMAIN q0 \cup {Str("beta")}
                     /\ q[Str("beta")] = <<Str("true")>>
                     /\ \A k \in DOMAIN q0 \ {Str("beta")} : q[k] = q0[k]
            ELSE req[i].r.RawQuery = req[i].entry.RawQuery

C5_Witness ==
    /\ req[1].pc = "next"
    /\ CallerUseBeta
    /\ req[1].entry.RawQuery =
          <<"foo", "=", "bar", "&", "beta", "=", "a", "&", "a", "=", "a", "=", "a", "&", "beta">>
    /\ req[1].r.RawQuery =
          <<"a", "=", "a", "%3D", "a", "&", "beta", "=", "true", "&", "foo", "=", "bar">>

\* C6: with a UserAgent in the Config the request handed on has exactly that
\* User-Agent; with none, the User-Agent it arrived with.
C6_UserAgent ==
    \A i \in Requests :
        req[i].pc = "next" =>
            req[i].r.Header[UAKey] =
                IF CallerUserAgent # Empty THEN <<CallerUserAgent>>
                ELSE req[i].entry.UserAgent

C6_Witness ==
    /\ req[1].pc = "next"
    /\ req[1].orig.Header[UAKey] = <<Str("sdk/1")>>
    /\ req[1].r.Header[UAKey] = <<Str("X/1.0")>>

\* What one step may do to the request of slot i.
C7_StepOrder(i) ==
    LET a == req[i]
        b == req'[i]
    IN  /\ (b.nextCalls # a.nextCalls /\ a.pc # "done") =>
              (a.pc = "next" /\ b.nextCalls = a.nextCalls + 1)
        /\ (a.pc = "beta" /\ b # a) =>
              /\ b.pc = "ua"
              /\ b.r.RawQuery = a.r.RawQuery
              /\ \A k \in HeaderKeys \ {BetaKey} : b.r.Header[k] = a.r.Header[k]
        /\ (a.pc = "ua" /\ b # a) =>
              /\ b.pc = "query"
              /\ b.r.RawQuery = a.r.RawQuery
              /\ \A k \in HeaderKeys \ {UAKey} : b.r.Header[k] = a.r.Header[k]
        /\ (a.pc = "query" /\ b # a) => (b.pc = "next" /\ b.r.Header = a.r.Header)
        /\ (a.pc = "next" /\ b # a) =>
              /\ b.r = a.r
              /\ b.pc \in {"beta", "ret"}
              /\ (b.pc = "ret") => (b.result \in Outcomes /\ b.ret = b.result)
        /\ (a.pc = "ret" /\ b # a) =>
              /\ b.r = a.r
              /\ b.result = a.result
              /\ b.ret = a.result
              /\ b.pc \in {"ret", "done"}
        /\ (b.pc = "done" /\ a.pc # "done") => b.nextCalls = CountOAuth(a.opts)

\* C7: each invocation runs merge, user agent, query in that order, each
\* touching only its part of the request, then calls its successor once;
\* nothing is changed after the call and the successor's result is returned
\* as it came.
C7_SuccessorOnceResultUnchanged == [][\A i \in Requests : C7_StepOrder(i)]_vars

C7_Witness ==
    /\ req[1].pc = "done"
    /\ req[1].nextCalls = 2
    /\ req[1].result = "error"
    /\ req[1].ret = "error"

\* C8: every flag the request carried under anthropic-beta, in any of the
\* key's values, is in the single value the middleware sets back.
C8_ExistingFlagsKept ==
    \A i \in Requests :
        Merged(i) =>
            /\ Len(req[i].r.Header[BetaKey]) = 1
            /\ \A t \in Range(FlagsOf(req[i].orig.Header[BetaKey])) :
                  t \in Range(FlagsOf(req[i].r.Header[BetaKey]))

\* C9: a request the unit ran on twice or more ends with the flags, the
\* User-Agent and the query parameters it had after the first run, each flag
\* and the beta marker once.
C9_RunTwiceAsOnce ==
    \A i \in Requests :
        (req[i].pc = "done" /\ CountOAuth(req[i].opts) >= 2) =>
            LET flags == FlagsOf(req[i].r.Header[BetaKey])
                q == Query(req[i].r.RawQuery)
            IN  /\ Range(flags) = req[i].first.Flags
                /\ req[i].r.Header[UAKey] = req[i].first.UserAgent
                /\ q = req[i].first.Query
                /\ \A t \in Range(flags) : Occurrences(flags, t) = 1
                /\ CallerUseBeta => Len(q[Str("beta")]) = 1

\* C10: once the builder has returned, no step writes the Config the
\* middleware closed over, the caller's Config or DefaultOAuthBetas, and a
\* step of one request leaves every other request as it was.
C10_ConfigReadOnly ==
    [][/\ built => cfg' = cfg
       /\ call' = call
       /\ DefaultOAuthBetas' = DefaultOAuthBetasInit
       /\ \A i, j \in Requests : (i # j /\ req'[i] # req[i]) => req'[j] = req[j]]_vars

C10_Witness ==
    /\ req[1].pc = "ua" /\ req[2].pc = "query"
    /\ req[1].orig # req[2].orig
    /\ call.fn = "WithConfig" /\ call.cfg.Betas = <<>>
    /\ cfg.Betas = DefaultOAuthBetasInit

====
